---- MODULE Spec2Model ----
(***************************************************************************)
(* The game loop and collision engine of TMNT_Game_Theme/js/engine.js.     *)
(*                                                                         *)
(* JavaScript is single threaded: one call stack, and a queue of frame     *)
(* callbacks registered with requestAnimationFrame that the browser runs   *)
(* in registration order when the stack is empty.  The stack is explicit   *)
(* here because checkCollisions calls init(), which calls main(), while    *)
(* the main() that called checkCollisions is still running.                *)
(*                                                                         *)
(* Player, Enemy, Gem and Heart are defined in app.js; what is modelled of *)
(* them (their constructors, update(), newWave(), the key handler) follows *)
(* the actor contract and is a nondeterministic choice over small sets.    *)
(***************************************************************************)
EXTENDS Integers, Sequences, FiniteSets, TLC

\* ---- bounds of the model ------------------------------------------------
MaxFrames == 2          \* frame callbacks the browser delivers in one run
MaxWildDepth == 3       \* stack height up to which the gem may land on the spawn point

\* ---- constants of engine.js ---------------------------------------------
TILE_HEIGHT == 70
TILE_WIDTH == 100
SpawnX == 200
SpawnY == 350
HiddenX == -100
CANVAS_WIDTH == 505
MsPerSecond == 1000
EnemyRows == <<70, 140, 210>>
NumEnemies == Len(EnemyRows)

\* ---- the collaborators of app.js, as far as the engine sees them ---------
StartLife == 3
StartClock == 1000
PlayMinX == 100
PlayMaxX == 300
PlayMinY == 70
PlayXs == {100, 200, 300}
PlayYs == {70, 140, 210, 280, 350}
EnemyXs == {HiddenX, 200}
NewWaveXs == {HiddenX}
GemSpots == {<<300, 210>>, <<100, 140>>}
HeartSpots == {<<200, 140>>}
FrameSteps == {0, 16, 3000}
Keys == {"left", "right", "up", "down"}

NoTime == -1            \* lastTime before init() assigns it (undefined)
NoHandle == 0           \* requestAnimationFrameID before main() assigns it

VARIABLES
    player,                     \* app.ACTORS.player: x, y, life, score
    allEnemies,                 \* app.ACTORS.allEnemies: sequence of x, y
    gem,                        \* app.ACTORS.gem: x, y
    heart,                      \* app.ACTORS.heart: x, y, notVisible
    lastTime,                   \* closure variable lastTime (ms)
    requestAnimationFrameID,    \* closure variable requestAnimationFrameID
    pending,                    \* the browser's queue of frame callbacks
    nextHandle,                 \* the browser's next callback handle
    clock,                      \* Date.now()
    stack,                      \* the call stack of engine functions
    booted,                     \* Resources.onReady has called init
    frames,                     \* frame callbacks delivered so far
    obs,                        \* what happened in the current tick (history)
    probe,                      \* inputs of a tolerance-box evaluation
    probeHit,                   \* its result
    gemSpots                    \* where Gem.update() can put the gem

vars == <<player, allEnemies, gem, heart, lastTime, requestAnimationFrameID,
          pending, nextHandle, clock, stack, booted, frames, obs,
          probe, probeHit, gemSpots>>

game == <<player, allEnemies, gem, heart, lastTime, requestAnimationFrameID,
          pending, nextHandle, clock, stack, booted, frames, obs, gemSpots>>

\* ---- pure functions -------------------------------------------------------
betweenStrict(x, min, max) == x > min /\ x < max

between(x, min, max) == x >= min /\ x <= max

\* the three tests of checkCollisions, each as its own line of the source has it
enemyHit(p, enemy) ==
    between(p.x, enemy.x - 60, enemy.x + 60) /\ between(p.y, enemy.y - 10, enemy.y + 10)

gemHit(p, g) ==
    between(p.x, g.x - 60, g.x + 60) /\ between(p.y, g.y - 10, g.y + 10)

heartHit(p, h) ==
    between(p.x, h.x - 60, h.x + 60) /\ between(p.y, h.y - 10, h.y + 10)

deltaTimeNoDivide(now, last) == [num |-> now - last, den |-> 1]

\* dt = (now - lastTime) / 1000, kept as the fraction num/den
deltaTime(now, last) == [num |-> now - last, den |-> MsPerSecond]

loseTwoLives(p) == [p EXCEPT !.life = p.life - 2]

loseLife(p) == [p EXCEPT !.life = p.life - 1]

gainTwoLives(p) == [p EXCEPT !.life = p.life + 2]

gainLife(p) == [p EXCEPT !.life = p.life + 1]

addTwoScore(p) == [p EXCEPT !.score = p.score + 2]

addScore(p) == [p EXCEPT !.score = p.score + 1]

resetPlayerStays(p) == p

resetPlayerAndScore(p) == [p EXCEPT !.x = SpawnX, !.y = SpawnY, !.score = 0]

resetPlayer(p) == [p EXCEPT !.x = SpawnX, !.y = SpawnY]

hideHeartOnGrid(h) == [h EXCEPT !.x = SpawnX]

hideHeart(h) == [h EXCEPT !.x = HiddenX]

keepAnimationFrame(q, id) == q

cancelAnimationFrame(q, id) == SelectSeq(q, LAMBDA h : h # id)

\* ---- app.js, modelled from the actor contract ----------------------------
newWave(e, x) == [e EXCEPT !.x = x]

\* Enemy.update(dt): no time, no movement; otherwise some position further on
EnemyUpdates(e, dt) ==
    IF dt.num = 0 THEN {e} ELSE {[e EXCEPT !.x = x] : x \in EnemyXs}

\* Heart.update(): a collected heart stays off the grid; otherwise it may
\* stay where it is or show up on a spot of the grid
HeartUpdates(h) ==
    IF h.notVisible
    THEN {[h EXCEPT !.x = HiddenX]}
    ELSE {h} \cup {[h EXCEPT !.x = s[1], !.y = s[2]] : s \in HeartSpots}

\* Gem.update(): the gem moves to its next spot
GemUpdates(g) ==
    {[g EXCEPT !.x = s[1], !.y = s[2]] :
        s \in IF Len(stack) < MaxWildDepth THEN gemSpots ELSE GemSpots}

Clamp(v, lo, hi) == IF v < lo THEN lo ELSE IF v > hi THEN hi ELSE v

\* Player.handleInput(key): one tile, inside the grid
movePlayer(p, key) ==
    CASE key = "left"  -> [p EXCEPT !.x = Clamp(p.x - TILE_WIDTH, PlayMinX, PlayMaxX)]
      [] key = "right" -> [p EXCEPT !.x = Clamp(p.x + TILE_WIDTH, PlayMinX, PlayMaxX)]
      [] key = "up"    -> [p EXCEPT !.y = Clamp(p.y - TILE_HEIGHT, PlayMinY, SpawnY)]
      [] key = "down"  -> [p EXCEPT !.y = Clamp(p.y + TILE_HEIGHT, PlayMinY, SpawnY)]

\* ---- the call stack --------------------------------------------------------
ZeroDt == [num |-> 0, den |-> MsPerSecond]

Frame(fn, pc, now, dt, i) == [fn |-> fn, pc |-> pc, now |-> now, dt |-> dt, i |-> i]

Top == stack[Len(stack)]

Running(fn, pc) == stack # <<>> /\ Top.fn = fn /\ Top.pc = pc

Goto(pc) == [stack EXCEPT ![Len(stack)].pc = pc]

Pop == SubSeq(stack, 1, Len(stack) - 1)

\* The history of one tick.  prevNow is the timestamp the tick before this
\* one took, tickNow the one this tick took, baseline the last one init() took,
\* cancelled the number of pending callbacks reset() removed, writes the
\* number of assignments to lastTime, nested the number of main() calls made
\* while a main() was running, wild the number of times gem.update() put the
\* gem inside the tolerance box of the spawn point; x0, y0, life0, score0 and hidden0 are the
\* player and heart.notVisible as the tick found them (as the last key press
\* left the player, between two ticks).
NewObs(p, prev) ==
    [life0 |-> p.life, score0 |-> p.score, enemyHits |-> 0, gemHits |-> 0,
     heartHits |-> 0, gemUpdates |-> 0, waved |-> {}, inits |-> 0,
     prevNow |-> prev, tickNow |-> NoTime, baseline |-> NoTime, resetRun |-> 0,
     cancelled |-> 0, writes |-> 0, nested |-> 0, wild |-> 0, x0 |-> p.x, y0 |-> p.y,
     hidden0 |-> heart.notVisible]

\* the main() on top of the stack is the one the tick started with
OuterMain == \A k \in 1..(Len(stack) - 1) : stack[k].fn # "main"

\* ---- initial state: the actors are constructed, nothing runs yet ----------
Init ==
    /\ player = [x |-> SpawnX, y |-> SpawnY, life |-> StartLife, score |-> 0]
    /\ allEnemies = [i \in 1..NumEnemies |-> [x |-> HiddenX, y |-> EnemyRows[i]]]
    /\ gem \in {[x |-> s[1], y |-> s[2]] : s \in GemSpots}
    /\ heart = [x |-> HiddenX, y |-> 140, notVisible |-> FALSE]
    /\ lastTime = NoTime
    /\ requestAnimationFrameID = NoHandle
    /\ pending = <<>>
    /\ nextHandle = 1
    /\ clock = StartClock
    /\ stack = <<>>
    /\ booted = FALSE
    /\ frames = 0
    /\ obs = NewObs(player, NoTime)
    /\ probe = [kind |-> "enemy", px |-> 0, py |-> 0, ax |-> 0, ay |-> 0]
    /\ probeHit = [done |-> FALSE, hit |-> FALSE]
    /\ gemSpots = GemSpots

\* ---- reset() ---------------------------------------------------------------
\* p and h are the player and the heart as the caller left them
reset(p, h) ==
    /\ player' = resetPlayer(p)
    /\ heart' = hideHeart(h)
    /\ \E xs \in [1..NumEnemies -> NewWaveXs] :
           allEnemies' = [i \in 1..NumEnemies |-> newWave(allEnemies[i], xs[i])]
    /\ pending' = cancelAnimationFrame(pending, requestAnimationFrameID)

\* ---- Resources.onReady(init) ------------------------------------------------
OnReady ==
    /\ ~booted
    /\ stack = <<>>
    /\ booted' = TRUE
    /\ stack' = <<Frame("init", "reset", 0, ZeroDt, 0)>>
    /\ obs' = NewObs(player, NoTime)
    /\ UNCHANGED <<player, allEnemies, gem, heart, lastTime,
                   requestAnimationFrameID, pending, nextHandle, clock, frames,
                   probe, probeHit, gemSpots>>

\* ---- init() -----------------------------------------------------------------
InitReset ==
    /\ Running("init", "reset")
    /\ reset(player, heart)
    /\ stack' = Goto("baseline")
    /\ obs' = [obs EXCEPT !.waved = 1..NumEnemies, !.inits = @ + 1,
                          !.cancelled = @ + Len(pending) - Len(pending')]
    /\ UNCHANGED <<gem, lastTime, requestAnimationFrameID, nextHandle, clock,
                   booted, frames, probe, probeHit, gemSpots>>

\* lastTime = Date.now(); main();
InitBaseline ==
    /\ Running("init", "baseline")
    /\ lastTime' = clock
    /\ stack' = Append(Goto("return"), Frame("main", "enter", 0, ZeroDt, 0))
    /\ obs' = [obs EXCEPT !.baseline = clock, !.writes = @ + 1]
    /\ UNCHANGED <<player, allEnemies, gem, heart, requestAnimationFrameID,
                   pending, nextHandle, clock, booted, frames, probe, probeHit, gemSpots>>

InitReturn ==
    /\ Running("init", "return")
    /\ stack' = Pop
    /\ UNCHANGED <<player, allEnemies, gem, heart, lastTime,
                   requestAnimationFrameID, pending, nextHandle, clock, booted,
                   frames, obs, probe, probeHit, gemSpots>>

\* ---- the browser delivers the oldest pending frame callback ----------------
FrameCallback ==
    /\ booted
    /\ stack = <<>>
    /\ pending # <<>>
    /\ frames < MaxFrames
    /\ \E d \in FrameSteps : clock' = clock + d
    /\ pending' = Tail(pending)
    /\ frames' = frames + 1
    /\ stack' = <<Frame("main", "enter", 0, ZeroDt, 0)>>
    /\ obs' = NewObs(player, obs.tickNow)
    /\ UNCHANGED <<player, allEnemies, gem, heart, lastTime,
                   requestAnimationFrameID, nextHandle, booted, probe, probeHit, gemSpots>>

\* ---- main() -----------------------------------------------------------------
\* var now = Date.now(), dt = (now - lastTime) / 1000.0;
MainEnter ==
    /\ Running("main", "enter")
    /\ stack' = [stack EXCEPT ![Len(stack)] =
                    Frame("main", "update", clock, deltaTime(clock, lastTime), 0)]
    /\ obs' = IF OuterMain THEN [obs EXCEPT !.tickNow = clock]
                         ELSE [obs EXCEPT !.nested = @ + 1]
    /\ UNCHANGED <<player, allEnemies, gem, heart, lastTime,
                   requestAnimationFrameID, pending, nextHandle, clock, booted,
                   frames, probe, probeHit, gemSpots>>

\* update(dt): updateEntities(dt), then checkCollisions() starts
UpdateEntities ==
    /\ Running("main", "update")
    /\ \E es \in [1..NumEnemies -> EnemyXs] :
          /\ \A i \in 1..NumEnemies :
                 [allEnemies[i] EXCEPT !.x = es[i]] \in EnemyUpdates(allEnemies[i], Top.dt)
          /\ allEnemies' = [i \in 1..NumEnemies |-> [allEnemies[i] EXCEPT !.x = es[i]]]
    /\ heart' \in HeartUpdates(heart)
    /\ stack' = [stack EXCEPT ![Len(stack)].pc = "enemy", ![Len(stack)].i = 1]
    /\ UNCHANGED <<player, gem, lastTime, requestAnimationFrameID, pending,
                   nextHandle, clock, booted, frames, obs, probe, probeHit, gemSpots>>

AfterEnemySkipsGem(i) ==
    IF i < NumEnemies
    THEN [stack EXCEPT ![Len(stack)].i = i + 1]
    ELSE [stack EXCEPT ![Len(stack)].pc = "heart", ![Len(stack)].i = 0]

\* where checkCollisions goes on after enemy i
AfterEnemy(i) ==
    IF i < NumEnemies
    THEN [stack EXCEPT ![Len(stack)].i = i + 1]
    ELSE [stack EXCEPT ![Len(stack)].pc = "gem", ![Len(stack)].i = 0]

\* allEnemies.forEach: one enemy
CheckEnemy ==
    /\ Running("main", "enemy")
    /\ IF enemyHit(player, allEnemies[Top.i])
       THEN /\ player' = loseLife(player)
            /\ stack' = Append(AfterEnemy(Top.i), Frame("init", "reset", 0, ZeroDt, 0))
            /\ obs' = [obs EXCEPT !.enemyHits = @ + 1, !.waved = {}]
       ELSE /\ stack' = AfterEnemy(Top.i)
            /\ UNCHANGED <<player, obs>>
    /\ UNCHANGED <<allEnemies, gem, heart, lastTime, requestAnimationFrameID,
                   pending, nextHandle, clock, booted, frames, probe, probeHit, gemSpots>>

CheckGem ==
    /\ Running("main", "gem")
    /\ IF gemHit(player, gem)
       THEN /\ player' = addScore(player)
            /\ gem' \in GemUpdates(gem)
            /\ stack' = Append(Goto("heart"), Frame("init", "reset", 0, ZeroDt, 0))
            /\ obs' = [obs EXCEPT !.gemHits = @ + 1, !.gemUpdates = @ + 1,
                                  !.wild = @ + (IF gemHit([x |-> SpawnX, y |-> SpawnY], gem')
                                                THEN 1 ELSE 0)]
       ELSE /\ stack' = Goto("heart")
            /\ UNCHANGED <<player, gem, obs>>
    /\ UNCHANGED <<allEnemies, heart, lastTime, requestAnimationFrameID,
                   pending, nextHandle, clock, booted, frames, probe, probeHit, gemSpots>>

CheckHeart ==
    /\ Running("main", "heart")
    /\ IF heartHit(player, heart)
       THEN /\ reset(gainLife(player), [heart EXCEPT !.notVisible = TRUE])
            /\ obs' = [obs EXCEPT !.heartHits = @ + 1, !.waved = 1..NumEnemies,
                                  !.cancelled = @ + Len(pending) - Len(pending')]
       ELSE UNCHANGED <<player, heart, allEnemies, pending, obs>>
    /\ stack' = Goto("render")
    /\ UNCHANGED <<gem, lastTime, requestAnimationFrameID, nextHandle, clock,
                   booted, frames, probe, probeHit, gemSpots>>

\* render(): draws, changes nothing
Render ==
    /\ Running("main", "render")
    /\ stack' = Goto("store")
    /\ UNCHANGED <<player, allEnemies, gem, heart, lastTime,
                   requestAnimationFrameID, pending, nextHandle, clock, booted,
                   frames, obs, probe, probeHit, gemSpots>>

StoreLastTimeSkipped ==
    /\ Running("main", "store")
    /\ lastTime' = lastTime
    /\ stack' = Goto("request")
    /\ obs' = obs
    /\ UNCHANGED <<player, allEnemies, gem, heart, requestAnimationFrameID,
                   pending, nextHandle, clock, booted, frames, probe, probeHit, gemSpots>>

\* lastTime = now;
StoreLastTime ==
    /\ Running("main", "store")
    /\ lastTime' = Top.now
    /\ stack' = Goto("request")
    /\ obs' = [obs EXCEPT !.writes = @ + 1]
    /\ UNCHANGED <<player, allEnemies, gem, heart, requestAnimationFrameID,
                   pending, nextHandle, clock, booted, frames, probe, probeHit, gemSpots>>

RequestFrameOnceOnly ==
    /\ Running("main", "request")
    /\ requestAnimationFrameID' = nextHandle
    /\ pending' = IF obs.heartHits > 0 THEN pending ELSE Append(pending, nextHandle)
    /\ nextHandle' = nextHandle + 1
    /\ stack' = Pop
    /\ UNCHANGED <<player, allEnemies, gem, heart, lastTime, clock, booted,
                   frames, obs, probe, probeHit, gemSpots>>

\* requestAnimationFrameID = win.requestAnimationFrame(main); and main returns
RequestFrame ==
    /\ Running("main", "request")
    /\ requestAnimationFrameID' = nextHandle
    /\ pending' = Append(pending, nextHandle)
    /\ nextHandle' = nextHandle + 1
    /\ stack' = Pop
    /\ UNCHANGED <<player, allEnemies, gem, heart, lastTime, clock, booted,
                   frames, obs, probe, probeHit, gemSpots>>

\* ---- a key press, handled between two callbacks ------------------------------
HandleInput ==
    /\ booted
    /\ stack = <<>>
    /\ \E key \in Keys : player' = movePlayer(player, key)
    /\ player' # player
    /\ obs' = [obs EXCEPT !.resetRun = 0, !.x0 = player'.x, !.y0 = player'.y]
    /\ UNCHANGED <<allEnemies, gem, heart, lastTime, requestAnimationFrameID,
                   pending, nextHandle, clock, stack, booted, frames,
                   probe, probeHit, gemSpots>>

\* ---- reset() called on its own, as the idempotence test calls it -----------
ResetCall ==
    /\ booted
    /\ stack = <<>>
    /\ obs.resetRun < 2
    /\ reset(player, heart)
    /\ obs' = [obs EXCEPT !.resetRun = @ + 1,
                          !.cancelled = @ + Len(pending) - Len(pending')]
    /\ UNCHANGED <<gem, lastTime, requestAnimationFrameID, nextHandle, clock,
                   stack, booted, frames, probe, probeHit, gemSpots>>

\* ---- one evaluation of a tolerance-box test ---------------------------------
ProbeBases == {<<200, 350>>, <<100, 70>>, <<300, 210>>}
ProbeDXs == {-61, -60, -59, 0, 59, 60, 61}
ProbeDYs == {-11, -10, -9, 0, 9, 10, 11}
ProbeKinds == {"enemy", "gem", "heart"}

ProbeInputs ==
    {[kind |-> k, px |-> b[1], py |-> b[2], ax |-> b[1] + dx, ay |-> b[2] + dy] :
        k \in ProbeKinds, b \in ProbeBases, dx \in ProbeDXs, dy \in ProbeDYs}

ProbeResult(in) ==
    LET p == [x |-> in.px, y |-> in.py]
        a == [x |-> in.ax, y |-> in.ay]
    IN  CASE in.kind = "enemy" -> enemyHit(p, a)
          [] in.kind = "gem"   -> gemHit(p, a)
          [] in.kind = "heart" -> heartHit(p, a)

Probe ==
    /\ ~probeHit.done
    /\ probeHit' = [done |-> TRUE, hit |-> ProbeResult(probe)]
    /\ UNCHANGED <<game, probe>>

Next ==
    \/ OnReady
    \/ InitReset
    \/ InitBaseline
    \/ InitReturn
    \/ FrameCallback
    \/ MainEnter
    \/ UpdateEntities
    \/ CheckEnemy
    \/ CheckGem
    \/ CheckHeart
    \/ Render
    \/ StoreLastTime
    \/ RequestFrame
    \/ HandleInput

Spec == Init /\ [][Next]_vars

\* the game with its scheduling: the code that runs goes on running, and the
\* browser delivers a pending frame callback (key presses may or may not come)
EngineStep ==
    \/ OnReady
    \/ InitReset
    \/ InitBaseline
    \/ InitReturn
    \/ FrameCallback
    \/ MainEnter
    \/ UpdateEntities
    \/ CheckEnemy
    \/ CheckGem
    \/ CheckHeart
    \/ Render
    \/ StoreLastTime
    \/ RequestFrame

SpecFair == Init /\ [][Next]_vars /\ WF_vars(EngineStep)

\* the game with a Gem.update() that may put the gem on the spawn point
WildSpots == GemSpots \cup {<<SpawnX, SpawnY>>}

InitWild ==
    /\ player = [x |-> SpawnX, y |-> SpawnY, life |-> StartLife, score |-> 0]
    /\ allEnemies = [i \in 1..NumEnemies |-> [x |-> HiddenX, y |-> EnemyRows[i]]]
    /\ gem \in {[x |-> s[1], y |-> s[2]] : s \in GemSpots}
    /\ heart = [x |-> HiddenX, y |-> 140, notVisible |-> FALSE]
    /\ lastTime = NoTime
    /\ requestAnimationFrameID = NoHandle
    /\ pending = <<>>
    /\ nextHandle = 1
    /\ clock = StartClock
    /\ stack = <<>>
    /\ booted = FALSE
    /\ frames = 0
    /\ obs = NewObs(player, NoTime)
    /\ probe = [kind |-> "enemy", px |-> 0, py |-> 0, ax |-> 0, ay |-> 0]
    /\ probeHit = [done |-> FALSE, hit |-> FALSE]
    /\ gemSpots = WildSpots

SpecWild == InitWild /\ [][Next]_vars

\* the game, and a test that calls reset() between two callbacks
NextReset == Next \/ ResetCall

SpecReset == Init /\ [][NextReset]_vars

\* the tolerance-box tests alone, on inputs around their boundaries
InitBox ==
    /\ player = [x |-> SpawnX, y |-> SpawnY, life |-> StartLife, score |-> 0]
    /\ allEnemies = [i \in 1..NumEnemies |-> [x |-> HiddenX, y |-> EnemyRows[i]]]
    /\ gem \in {[x |-> s[1], y |-> s[2]] : s \in GemSpots}
    /\ heart = [x |-> HiddenX, y |-> 140, notVisible |-> FALSE]
    /\ lastTime = NoTime
    /\ requestAnimationFrameID = NoHandle
    /\ pending = <<>>
    /\ nextHandle = 1
    /\ clock = StartClock
    /\ stack = <<>>
    /\ booted = FALSE
    /\ frames = 0
    /\ obs = NewObs(player, NoTime)
    /\ probe \in ProbeInputs
    /\ probeHit = [done |-> FALSE, hit |-> FALSE]
    /\ gemSpots = GemSpots

NextBox == Probe

SpecBox == InitBox /\ [][NextBox]_vars

\* ---- steps and states the properties talk about -----------------------------
TickCompletes == stack # <<>> /\ stack' = <<>>

AtSpawn(p) == p.x = SpawnX /\ p.y = SpawnY

EnemyRuleFires == Running("main", "enemy") /\ enemyHit(player, allEnemies[Top.i])

GemRuleFires == Running("main", "gem") /\ gemHit(player, gem)

HeartRuleFires == Running("main", "heart") /\ heartHit(player, heart)

InitCalled == stack' # <<>> /\ Len(stack') = Len(stack) + 1
              /\ stack'[Len(stack')].fn = "init" /\ stack'[Len(stack')].pc = "reset"

UpdateInProgress(k) ==
    stack[k].fn = "main" /\ stack[k].pc \in {"update", "enemy", "gem", "heart"}

Handles(q) == {q[k] : k \in 1..Len(q)}

\* ---- C1 -----------------------------------------------------------------------
\* C1: at most one frame callback scheduled by main() is pending in every
\* reachable state.
C1_AtMostOneLoop == Len(pending) <= 1

C4_HeartCollision ==
    [][HeartRuleFires =>
          /\ player'.life = player.life + 1
          /\ heart'.notVisible
          /\ AtSpawn(player')
          /\ heart'.x = HiddenX
          /\ obs'.waved = 1..NumEnemies
          /\ \A i \in 1..NumEnemies : allEnemies'[i].x \in NewWaveXs
          /\ Len(stack') = Len(stack)
          /\ stack'[Len(stack')].pc = "render"
          /\ lastTime' = lastTime
          /\ nextHandle' = nextHandle
          /\ requestAnimationFrameID' = requestAnimationFrameID
          /\ Handles(pending') \subseteq Handles(pending)]_vars

C4_Witness ==
    /\ Running("main", "render")
    /\ obs.heartHits = 1
    /\ heart.notVisible
    /\ player.life = obs.life0 + 1

\* ---- C5 -----------------------------------------------------------------------
\* C5: each of the three tests of checkCollisions is true exactly when
\* player.x is in [actor.x - 60, actor.x + 60] and player.y is in
\* [actor.y - 10, actor.y + 10], both ends included.
C5_ToleranceBox ==
    probeHit.done =>
        (probeHit.hit <=>
            /\ probe.px \in (probe.ax - 60)..(probe.ax + 60)
            /\ probe.py \in (probe.ay - 10)..(probe.ay + 10))

C5_Witness ==
    /\ probeHit.done
    /\ probeHit.hit
    /\ probe.kind = "heart"
    /\ probe.px = probe.ax + 60
    /\ probe.py = probe.ay - 10

\* ---- C6 -----------------------------------------------------------------------
\* C6: render() never runs while the update() of a main() is still in
\* progress.
C6_NoRenderDuringUpdate ==
    ~(/\ Running("main", "render")
      /\ \E k \in 1..(Len(stack) - 1) : UpdateInProgress(k))

\* ---- C7 -----------------------------------------------------------------------
\* C7 as stated: after reset() was called twice in a row exactly one frame
\* callback is pending.
C7_Original == obs.resetRun = 2 => Len(pending) = 1

\* C7, amended: reset() called twice in a row is reset() called once, as far
\* as the schedule goes: the second call leaves the pending callbacks as the
\* first left them, the callback registered in requestAnimationFrameID is
\* cancelled and none is armed, so none of that loop is pending afterwards.
C7_ResetTwice ==
    [][(stack = <<>> /\ obs.resetRun = 1 /\ obs'.resetRun = 2) =>
          /\ pending' = pending
          /\ requestAnimationFrameID \notin Handles(pending')
          /\ nextHandle' = nextHandle
          /\ requestAnimationFrameID' = requestAnimationFrameID]_vars

C7_Witness ==
    /\ obs.resetRun = 2
    /\ obs.cancelled = 1
    /\ pending = <<>>
    /\ requestAnimationFrameID # NoHandle

\* ---- C8 -----------------------------------------------------------------------
\* C8: when reset() returns no frame callback is pending, and a callback
\* becomes pending only by the requestAnimationFrame call of main().
C8_ResetStopsLoop ==
    [][/\ (Running("init", "reset") \/ HeartRuleFires) => pending' = <<>>
       /\ (Handles(pending') \ Handles(pending) # {}) => Running("main", "request")]_vars

C8_Witness ==
    /\ stack # <<>>
    /\ obs.cancelled >= 1
    /\ pending = <<>>

\* ---- C9 -----------------------------------------------------------------------
\* C9: while the heart is hidden (heart.notVisible, or heart.x = -100) its
\* test fails for every position of the player on the canvas, and the heart
\* test of checkCollisions leaves player.life alone.
C9_HiddenHeart ==
    /\ [](heart.notVisible \/ heart.x = HiddenX =>
            \A px \in PlayXs \cup {0, CANVAS_WIDTH}, py \in PlayYs \cup {heart.y} :
                ~heartHit([x |-> px, y |-> py], heart))
    /\ [][(Running("main", "heart") /\ (heart.notVisible \/ heart.x = HiddenX)) =>
            player'.life = player.life]_vars

C9_Witness ==
    /\ Running("main", "heart")
    /\ heart.notVisible
    /\ heart.x = HiddenX
    /\ player.y = heart.y

\* ---- C10 ----------------------------------------------------------------------
\* C10: the dt main() computes is (now - lastTime) / 1000 with now the time
\* of this call, whatever its size; lastTime is then the timestamp the tick
\* before stored, or the baseline of the init() that called this main();
\* lastTime = 1000 and now = 1016 give 16/1000.
CalledMain == stack'[Len(stack')]

C10_DeltaTime ==
    [][Running("main", "enter") =>
          /\ CalledMain.pc = "update"
          /\ CalledMain.now = clock
          /\ lastTime # NoTime
          /\ lastTime = (IF Len(stack) = 1 THEN obs.prevNow ELSE obs.baseline)
          /\ CalledMain.dt.den # 0
          /\ CalledMain.dt.num * MsPerSecond = (clock - lastTime) * CalledMain.dt.den
          /\ (lastTime = 1000 /\ clock = 1016) =>
                 CalledMain.dt.num * 1000 = 16 * CalledMain.dt.den]_vars

C10_Witness ==
    /\ Running("main", "update")
    /\ Len(stack) = 1
    /\ Top.now = 1016
    /\ lastTime = 1000
    /\ Top.dt = [num |-> 16, den |-> 1000]

\* ---- C11 ----------------------------------------------------------------------
\* the frame of the running function, as the step leaves it
Here == stack'[Len(stack)]

\* C11: checkCollisions tests enemy 1, 2, 3, then the gem, then the heart, in
\* every call and whatever fired before; a rule fires exactly when its test
\* holds, whatever heart.notVisible is.
C11_CheckOrder ==
    [][/\ Running("main", "update") => (Here.pc = "enemy" /\ Here.i = 1)
       /\ (Running("main", "enemy") /\ Top.i < NumEnemies) =>
             (Here.pc = "enemy" /\ Here.i = Top.i + 1)
       /\ (Running("main", "enemy") /\ Top.i = NumEnemies) => Here.pc = "gem"
       /\ Running("main", "gem") => Here.pc = "heart"
       /\ Running("main", "heart") => Here.pc = "render"
       /\ Running("main", "enemy") =>
             (obs'.enemyHits = obs.enemyHits + 1 <=> enemyHit(player, allEnemies[Top.i]))
       /\ Running("main", "gem") =>
             (obs'.gemHits = obs.gemHits + 1 <=> gemHit(player, gem))
       /\ Running("main", "heart") =>
             (obs'.heartHits = obs.heartHits + 1 <=> heartHit(player, heart))
       /\ \A k \in 1..(Len(stack) - 1) :
             Len(stack') >= Len(stack) => stack'[k] = stack[k]]_vars

\* the gem and the heart are tested after the enemy rule fired in this call
C11_Witness ==
    /\ Running("main", "heart")
    /\ OuterMain
    /\ obs.enemyHits = 1
    /\ obs.nested = 1

C13_NeverFreezes ==
    /\ []((booted /\ stack = <<>>) => pending # <<>>)
    /\ [][(TickCompletes /\ obs.heartHits > 0) => pending' # <<>>]_vars
    /\ <>[](frames = MaxFrames /\ stack = <<>>)

C13_Witness ==
    /\ stack = <<>>
    /\ obs.heartHits = 1
    /\ obs.cancelled = 0
    /\ Len(pending) = 1
    /\ frames >= 1

\* ---- C14 ----------------------------------------------------------------------
\* the place of a frame in the function it runs
Rank(f) ==
    CASE f.fn = "init" /\ f.pc = "reset"    -> 0
      [] f.fn = "init" /\ f.pc = "baseline" -> 1
      [] f.fn = "init" /\ f.pc = "return"   -> 2
      [] f.fn = "main" /\ f.pc = "enter"    -> 0
      [] f.fn = "main" /\ f.pc = "update"   -> 1
      [] f.fn = "main" /\ f.pc = "enemy"    -> 1 + f.i
      [] f.fn = "main" /\ f.pc = "gem"      -> 2 + NumEnemies
      [] f.fn = "main" /\ f.pc = "heart"    -> 3 + NumEnemies
      [] f.fn = "main" /\ f.pc = "render"   -> 4 + NumEnemies
      [] f.fn = "main" /\ f.pc = "store"    -> 5 + NumEnemies
      [] f.fn = "main" /\ f.pc = "request"  -> 6 + NumEnemies

\* C14: as long as gem.update() has not put the gem in the tolerance box of
\* the spawn point, the stack of a tick is never higher than main, init,
\* main, and there is at most one nested main() per enemy or gem rule that
\* fired; every step of running code returns, or moves its function
\* forward (also when it calls).
C14_TickTerminates ==
    /\ [](obs.wild = 0 =>
            /\ Len(stack) <= 3
            /\ obs.nested <= obs.enemyHits + obs.gemHits
            /\ obs.enemyHits + obs.gemHits <= 1)
    /\ [][stack # <<>> =>
            \/ Len(stack') < Len(stack)
            \/ Rank(Here) > Rank(Top)]_vars
    /\ [][(TickCompletes /\ obs.wild = 0) =>
            obs'.nested = obs'.enemyHits + obs'.gemHits]_vars

C14_Witness ==
    /\ stack = <<>>
    /\ frames >= 1
    /\ obs.wild = 0
    /\ obs.gemHits = 1
    /\ obs.nested = 1
    /\ gemSpots = WildSpots

\* the proviso is needed: a gem on the spawn point nests a second main()
C14_WildNests == obs.wild > 0 /\ Len(stack) = 5

\* ---- C15 ----------------------------------------------------------------------
NoRuleFired(o) == o.enemyHits = 0 /\ o.gemHits = 0 /\ o.heartHits = 0

ResetCalled == stack = <<>> /\ obs'.resetRun = obs.resetRun + 1

\* C16: reset(), called by init(), by the heart rule or on its own, leaves
\* player.life, player.score, the gem, heart.notVisible, heart.y and
\* lastTime as its caller left them, and the three enemies in their rows.
C16_ResetKeeps ==
    [][/\ (Running("init", "reset") \/ ResetCalled) =>
             /\ player'.life = player.life
             /\ player'.score = player.score
             /\ heart'.notVisible = heart.notVisible
       /\ HeartRuleFires =>
             /\ player'.life = gainLife(player).life
             /\ player'.score = player.score
             /\ heart'.notVisible
       /\ (Running("init", "reset") \/ ResetCalled \/ HeartRuleFires) =>
             /\ gem' = gem
             /\ heart'.y = heart.y
             /\ lastTime' = lastTime
             /\ Len(allEnemies') = NumEnemies
             /\ \A i \in 1..NumEnemies : allEnemies'[i].y = EnemyRows[i]]_vars

C16_Witness ==
    /\ Running("init", "baseline")
    /\ obs.gemHits = 1
    /\ player.score = 1
    /\ AtSpawn(player)
    /\ lastTime # NoTime

====
